---- MODULE Spec2Model ----
(***************************************************************************)
(* Model of generate_tree.py: get_github_data() followed by draw_tree().   *)
(*                                                                         *)
(* State: the module-level configuration (GITHUB_TOKEN), the outcome of    *)
(* the single requests.post call, the data record handed from the fetcher  *)
(* to the renderer, the locals of draw_tree, the SVG element list and the  *)
(* output file.  Real-valued quantities are kept exact: branch_len is a    *)
(* pair <<numerator, denominator>>, ctrl_x is kept doubled.  The end point *)
(* of a branch (cos/sin of the angle) and the random position, colour and  *)
(* radius of a leaf are not represented; the random bend and the random    *)
(* angle jitter are nondeterministic choices.                              *)
(***************************************************************************)
EXTENDS Integers, Sequences, FiniteSets, TLC

VARIABLES token, server, pc, response, net_calls, fetched_repos, data, data0,
          trunk_end_x, trunk_end_y, ctrl_x2, total_commits, current_y, i,
          angle, elements, saves, file

vars == <<token, server, pc, response, net_calls, fetched_repos, data, data0,
          trunk_end_x, trunk_end_y, ctrl_x2, total_commits, current_y, i,
          angle, elements, saves, file>>

drawvars == <<trunk_end_x, trunk_end_y, ctrl_x2, total_commits, current_y, i,
              angle, elements, saves, file>>

(* ---------------------------- bounds ----------------------------------- *)
MaxNodes == 7
MaxEdgeNodes == 2
MaxLen == 3

(* ------------------------- configuration ------------------------------- *)
MAX_REPOS == 6
CurrentYear == 2026

None == [kind |-> "none"]

Min(a, b) == IF a < b THEN a ELSE b
Max(a, b) == IF a > b THEN a ELSE b

SeqsUpTo(S, n) == UNION {[1..k -> S] : k \in 0..n}

(* ------------------------- data records -------------------------------- *)
Repo(n, s, c) == [name |-> n, stars |-> s, commits |-> c]

MockData ==
  [years_active |-> 3,
   repos |-> << Repo("Project-A", 12, 150), Repo("Project-B", 5, 80),
               Repo("Project-C", 20, 300), Repo("Project-D", 2, 40),
               Repo("Project-E", 0, 20) >>]

Fallback == [years_active |-> 1, repos |-> << >>]

(* ------------------------- the response -------------------------------- *)
(* A node of data.user.repositories.nodes.  ref is the shape of            *)
(* defaultBranchRef: "none" (null), "commit" (target.history.totalCount    *)
(* present) or "nohistory" (target without a history field).               *)
Node(n, s, ref, c) == [name |-> n, stargazerCount |-> s, ref |-> ref, totalCount |-> c]

GoodNodes == { Node("empty", 2, "none", 0),
               Node("small", 3, "commit", 60),
               Node("big", 0, "commit", 300) }

AllNodes == GoodNodes \cup { Node("idle", 1, "commit", 0),
                             Node("odd", 4, "nohistory", 0) }

BadDate == 0

Resp(k, st, er, cr, ns) ==
  [kind |-> k, status |-> st, errors |-> er, created |-> cr, nodes |-> ns]

Statuses == {200, 502}

Responses ==
  { Resp("transport_error", 0, FALSE, BadDate, << >>) }
  \cup { Resp("notjson", st, FALSE, BadDate, << >>) : st \in Statuses }
  \cup { Resp(k, st, er, BadDate, << >>) :
           k \in {"nodata", "datanull", "usernull"}, st \in Statuses, er \in BOOLEAN }
  \cup { Resp("user", st, er, cr, ns) :
           st \in Statuses, er \in BOOLEAN, cr \in {2022, 2026},
           ns \in SeqsUpTo(GoodNodes, MaxNodes) }
  \cup { Resp("user", st, er, cr, ns) :
           st \in Statuses, er \in BOOLEAN, cr \in {BadDate, 2022, 2026, 2027},
           ns \in SeqsUpTo(AllNodes, MaxEdgeNodes) }

(* commits of one node, line 101 *)
NodeCommits(node) == IF node.ref = "none" THEN 0 ELSE node.totalCount

(* the statements of the try block that raise: requests.post (94),       *)
(* response.json() (95), data['data']['user'] (96), int(createdAt[:4])     *)
(* (97), node['defaultBranchRef']['target']['history'] (101)               *)
Raises(r) ==
  \/ r.kind # "user"
  \/ r.created = BadDate
  \/ \E k \in 1..Len(r.nodes) : r.nodes[k].ref = "nohistory"

YearsActive(created) == Max(1, CurrentYear - created + 1)

ActiveRepos(nodes) ==
  LET keep(node) == NodeCommits(node) > 0
      conv(node) == Repo(node.name, node.stargazerCount, NodeCommits(node))
      F[k \in 0..Len(nodes)] ==
        IF k = 0 THEN << >>
        ELSE IF keep(nodes[k]) THEN Append(F[k-1], conv(nodes[k])) ELSE F[k-1]
  IN F[Len(nodes)]

Truncate_all(repos) == repos

Truncate(repos) == SubSeq(repos, 1, Min(Len(repos), MAX_REPOS))

(* lines 93-106; the bare except turns every exception into the fallback *)
ParseResponse_noexcept(r) ==
  IF Raises(r)
  THEN [raised |-> TRUE, found |-> 0, data |-> Fallback]
  ELSE [raised |-> FALSE, found |-> Len(ActiveRepos(r.nodes)),
        data |-> [years_active |-> YearsActive(r.created),
                  repos |-> Truncate(ActiveRepos(r.nodes))]]

ParseResponse(r) ==
  IF Raises(r)
  THEN [raised |-> FALSE, found |-> 0, data |-> Fallback]
  ELSE [raised |-> FALSE, found |-> Len(ActiveRepos(r.nodes)),
        data |-> [years_active |-> YearsActive(r.created),
                  repos |-> Truncate(ActiveRepos(r.nodes))]]

(* ------------------------- SVG elements -------------------------------- *)
El(kind, tag, b, x, y, w, len) ==
  [kind |-> kind, tag |-> tag, branch |-> b, x |-> x, y |-> y, w |-> w, len |-> len]

NoLen == <<0, 1>>

BendSet == {-30, 0, 30}
JitterSet == {-20, 20}

TrunkWidth_k1(d) == 25 + d.years_active

TrunkWidth(d) == 25 + (d.years_active * 2)

RECURSIVE SumCommits(_)
SumCommits(s) == IF s = << >> THEN 0 ELSE Head(s).commits + SumCommits(Tail(s))

TotalCommits(repos) == IF repos # << >> THEN SumCommits(repos) ELSE 1

(* list.sort(key=commits, reverse=True): descending by commits and stable, *)
(* so an entry goes after every entry with more commits and after the      *)
(* earlier entries with as many                                            *)
SortDesc(s) ==
  LET Rank(k) == 1 + Cardinality({j \in 1..Len(s) :
                        \/ s[j].commits > s[k].commits
                        \/ (s[j].commits = s[k].commits /\ j < k)})
  IN [p \in 1..Len(s) |-> s[CHOOSE k \in 1..Len(s) : Rank(k) = p]]

(* lines 150-151: 100 + commits/total*150, capped at 250, as a fraction *)
BranchLen(commits, total) ==
  LET num == 100 * total + 150 * commits
  IN IF num > 250 * total THEN <<250, 1>> ELSE <<num, total>>

ClusterSize_nocap(commits) == Max(10, commits \div 5)

ClusterSize(commits) == Min(40, Max(10, commits \div 5))

StarCount_nocap(stars) == IF stars > 0 THEN stars ELSE 0

StarCount(stars) == IF stars > 0 THEN Min(5, stars) ELSE 0

Leaves(b, n) == [k \in 1..n |-> El("circle", "leaf", b, 0, 0, 0, NoLen)]

Flowers(b, n) ==
  [k \in 1..(2 * n) |->
     IF k % 2 = 1 THEN El("circle", "core", b, 0, 0, 5, NoLen)
                  ELSE El("circle", "glow", b, 0, 0, 9, NoLen)]

(* ------------------------------ Init ----------------------------------- *)
DrawInit ==
  /\ trunk_end_x = 0 /\ trunk_end_y = 0 /\ ctrl_x2 = 0
  /\ total_commits = 0 /\ current_y = 0 /\ i = 0 /\ angle = 0
  /\ elements = << >> /\ saves = 0 /\ file = None

(* server is what the endpoint will answer to the request of this run *)
Init ==
  /\ token \in BOOLEAN
  /\ server \in (IF token THEN Responses ELSE {None})
  /\ pc = "start"
  /\ response = None
  /\ net_calls = 0
  /\ fetched_repos = 0
  /\ data = None /\ data0 = None
  /\ DrawInit

(* draw_tree applied to an arbitrary ActivitySummary *)
RepoVals == { Repo("r0", 0, 0), Repo("r1", 3, 0), Repo("r2", 12, 60), Repo("r3", 0, 300) }

Summaries ==
  { [years_active |-> y, repos |-> rs] : y \in {1, 5}, rs \in SeqsUpTo(RepoVals, MaxLen) }
  \cup { MockData }

InitDraw ==
  /\ token = FALSE
  /\ server = None
  /\ pc = "fetched"
  /\ response = None
  /\ net_calls = 0
  /\ data \in Summaries /\ data0 = data
  /\ fetched_repos = Len(data.repos)
  /\ DrawInit

(* --------------------------- get_github_data --------------------------- *)
(* lines 65-76: no token, static mock record, no request *)
GetGithubDataMock ==
  /\ pc = "start" /\ ~token
  /\ data' = MockData /\ data0' = MockData
  /\ fetched_repos' = Len(MockData.repos)
  /\ pc' = "fetched"
  /\ UNCHANGED <<token, server, response, net_calls, drawvars>>

(* line 94: the single requests.post, answered by the server *)
Post_retry ==
  /\ pc = "start" /\ token
  /\ response' = server
  /\ server' = None
  /\ net_calls' = IF Raises(server) THEN net_calls + 2 ELSE net_calls + 1
  /\ pc' = "responded"
  /\ UNCHANGED <<token, fetched_repos, data, data0, drawvars>>

Post ==
  /\ pc = "start" /\ token
  /\ response' = server
  /\ server' = None
  /\ net_calls' = net_calls + 1
  /\ pc' = "responded"
  /\ UNCHANGED <<token, fetched_repos, data, data0, drawvars>>

(* lines 95-106: parse the body, or the except branch *)
HandleResponse ==
  /\ pc = "responded"
  /\ LET res == ParseResponse(response)
     IN IF res.raised
        THEN /\ pc' = "crashed"
             /\ UNCHANGED <<data, data0, fetched_repos>>
        ELSE /\ pc' = "fetched"
             /\ data' = res.data /\ data0' = res.data
             /\ fetched_repos' = res.found
  /\ response' = None
  /\ UNCHANGED <<token, server, net_calls, drawvars>>

(* ------------------------------ draw_tree ------------------------------ *)
(* lines 110-114 *)
DrawGround ==
  /\ pc = "fetched"
  /\ elements' = << El("path", "ground", 0, 0, 550, 0, NoLen),
                    El("path", "grass", 0, 0, 550, 0, NoLen) >>
  /\ pc' = "ground"
  /\ UNCHANGED <<token, server, response, net_calls, fetched_repos, data, data0,
                 trunk_end_x, trunk_end_y, ctrl_x2, total_commits, current_y, i,
                 angle, saves, file>>

(* lines 116-142: trunk, then the set-up of the branch loop and the in-place sort *)
DrawTrunk ==
  /\ pc = "ground"
  /\ \E bend \in BendSet :
       /\ trunk_end_x' = 400 + bend
       /\ ctrl_x2' = 2 * 400 + bend
       /\ elements' = Append(elements,
                             El("path", "trunk", 0, 400 + bend, 550 - 160, TrunkWidth(data), NoLen))
  /\ trunk_end_y' = 550 - 160
  /\ total_commits' = TotalCommits(data.repos)
  /\ current_y' = (550 - 160) + 40
  /\ data' = [data EXCEPT !.repos = SortDesc(data.repos)]
  /\ i' = 0
  /\ pc' = "branches"
  /\ UNCHANGED <<token, server, response, net_calls, fetched_repos, data0, angle, saves, file>>

(* lines 144-191: one iteration of the loop over repos *)
DrawBranch ==
  /\ pc = "branches" /\ i < Len(data.repos)
  /\ LET repo == data.repos[i + 1]
         is_right == i % 2 = 0
         angle_base == IF is_right THEN -45 ELSE -135
     IN IF total_commits = 0
        THEN (* ZeroDivisionError at line 150 *)
             /\ pc' = "crashed"
             /\ UNCHANGED <<angle, elements, current_y, i>>
        ELSE /\ \E j \in JitterSet : angle' = angle_base + j
             /\ elements' = Append(elements,
                                   El("path", "branch", i, trunk_end_x, current_y, 8,
                                      BranchLen(repo.commits, total_commits)))
                            \o Leaves(i, ClusterSize(repo.commits))
                            \o Flowers(i, StarCount(repo.stars))
             /\ current_y' = current_y - 15
             /\ i' = i + 1
             /\ pc' = "branches"
  /\ UNCHANGED <<token, server, response, net_calls, fetched_repos, data, data0,
                 trunk_end_x, trunk_end_y, ctrl_x2, total_commits, saves, file>>

(* lines 193-195 *)
DrawFooter ==
  /\ pc = "branches" /\ i = Len(data.repos)
  /\ elements' = elements \o << El("text", "title", 0, 400, 580, 20, NoLen),
                                El("text", "subtitle", 0, 400, 595, data.years_active, NoLen) >>
  /\ pc' = "footer"
  /\ UNCHANGED <<token, server, response, net_calls, fetched_repos, data, data0,
                 trunk_end_x, trunk_end_y, ctrl_x2, total_commits, current_y, i,
                 angle, saves, file>>

(* lines 49-56 and 197 *)
Save ==
  /\ pc = "footer"
  /\ file' = [kind |-> "svg", width |-> 800, height |-> 600, body |-> elements]
  /\ saves' = saves + 1
  /\ pc' = "done"
  /\ UNCHANGED <<token, server, response, net_calls, fetched_repos, data, data0,
                 trunk_end_x, trunk_end_y, ctrl_x2, total_commits, current_y, i,
                 angle, elements>>

Next ==
  \/ GetGithubDataMock
  \/ Post
  \/ HandleResponse
  \/ DrawGround
  \/ DrawTrunk
  \/ DrawBranch
  \/ DrawFooter
  \/ Save

Spec == Init /\ [][Next]_vars

(* the program runs to completion: it is sequential and every step returns *)
FairSpec == Spec /\ WF_vars(Next)

NextDraw ==
  \/ DrawGround
  \/ DrawTrunk
  \/ DrawBranch
  \/ DrawFooter
  \/ Save

SpecDraw == InitDraw /\ [][NextDraw]_vars

(* ------------------------- properties ---------------------------------- *)
Idx(tag) == {k \in 1..Len(elements) : elements[k].tag = tag}

CountTag(tag, b) ==
  Cardinality({k \in 1..Len(elements) : elements[k].tag = tag /\ elements[k].branch = b})

(* branches whose loop iteration has completed *)
Drawn == 0..(i - 1)

(* what the claim calls a failed request: transport failure, non-success  *)
(* status, malformed body, error-bearing body                              *)
IsFailure(r) ==
  \/ r.kind = "transport_error"
  \/ r.status # 200
  \/ Raises(r)
  \/ r.errors

(* C1: with a token set, every failed outcome of the request (transport    *)
(* failure, non-success status, malformed or error-bearing body) makes     *)
(* get_github_data return the fallback record without raising.             *)
C1_FailureGivesFallback ==
  [][(pc = "responded" /\ IsFailure(response))
       => (pc' = "fetched" /\ data' = Fallback)]_vars

(* C2: every run reaches the written state; save happens exactly once, is  *)
(* the last canvas action, and the element list never changes after it.    *)
C2_AlwaysWritten ==
  <>[](pc = "done" /\ saves = 1 /\ file # None /\ file.body = elements)

C2_Witness ==
  /\ pc = "done" /\ token /\ data0 = Fallback
  /\ saves = 1 /\ file.body = elements /\ Len(elements) = 5

(* C3: a non-empty repository list whose commits are all zero does not     *)
(* divide by zero, and every branch gets a finite length of at most 250.   *)
C3_NoDivisionByZero ==
  (/\ data0.repos # << >>
   /\ \A k \in 1..Len(data0.repos) : data0.repos[k].commits = 0)
  => /\ pc # "crashed"
     /\ \A k \in Idx("branch") :
          elements[k].len[2] > 0 /\ elements[k].len[1] <= 250 * elements[k].len[2]

(* C4: at most MAX_REPOS branches are rendered, even when the response     *)
(* holds more than MAX_REPOS active repositories.                          *)
C4_AtMostMaxRepos ==
  /\ Cardinality(Idx("branch")) <= MAX_REPOS
  /\ i <= MAX_REPOS

C4_Witness ==
  /\ pc = "done" /\ token
  /\ fetched_repos > MAX_REPOS
  /\ Cardinality(Idx("branch")) = MAX_REPOS

(* C5: exactly one network call once the request has been made when a      *)
(* token is present, none at all without a token, where the mock record is *)
(* returned.                                                               *)
C5_OneCallOrNone ==
  /\ token => net_calls = (IF pc = "start" THEN 0 ELSE 1)
  /\ ~token => (net_calls = 0 /\ (pc # "start" => data0 = MockData))

C5_Witness ==
  /\ pc = "done" /\ token /\ net_calls = 1 /\ data0 = Fallback /\ fetched_repos = 0

(* C6: a rendered repository with stars = 0 has no flower glyph; one with  *)
(* stars > 0 has min(5, stars) glyphs, each a core circle and a glow       *)
(* circle.                                                                 *)
C6_FlowerCount ==
  \A b \in Drawn :
    LET stars == data.repos[b + 1].stars
        glyphs == IF stars = 0 THEN 0 ELSE IF stars < 5 THEN stars ELSE 5
    IN /\ CountTag("core", b) = glyphs
       /\ CountTag("glow", b) = glyphs
       /\ CountTag("core", b) + CountTag("glow", b) = 2 * glyphs

C6_Witness ==
  /\ pc = "done"
  /\ \E a, b, c \in Drawn :
       /\ data.repos[a + 1].stars = 0 /\ CountTag("core", a) = 0
       /\ data.repos[b + 1].stars = 3 /\ CountTag("core", b) = 3
       /\ data.repos[c + 1].stars = 12 /\ CountTag("glow", c) = 5

(* C7: the leaf count of a rendered repository is                          *)
(* min(40, max(10, commits // 5)): between 10 and 40, non-decreasing in    *)
(* commits, and for the mock record Project-C has at least as many leaves  *)
(* as Project-A.                                                           *)
C7_LeafCount ==
  /\ \A b \in Drawn :
       LET c == data.repos[b + 1].commits
           q == c \div 5
       IN /\ CountTag("leaf", b) = (IF q < 10 THEN 10 ELSE IF q > 40 THEN 40 ELSE q)
          /\ CountTag("leaf", b) >= 10
          /\ CountTag("leaf", b) <= 40
  /\ \A a, b \in Drawn :
       data.repos[a + 1].commits <= data.repos[b + 1].commits
         => CountTag("leaf", a) <= CountTag("leaf", b)
  /\ \A a, b \in Drawn :
       (data.repos[a + 1].name = "Project-A" /\ data.repos[b + 1].name = "Project-C")
         => CountTag("leaf", b) >= CountTag("leaf", a)

C7_Witness ==
  /\ pc = "done"
  /\ \E a, b, c \in Drawn :
       /\ data.repos[a + 1].commits = 0 /\ CountTag("leaf", a) = 10
       /\ data.repos[b + 1].commits = 60 /\ CountTag("leaf", b) = 12
       /\ data.repos[c + 1].commits = 300 /\ CountTag("leaf", c) = 40

(* C8: draw_tree leaves the record it is given unchanged, including the    *)
(* order of its repository sequence.                                       *)
C8_RecordUnchanged ==
  pc \in {"fetched", "ground", "branches", "footer", "done"} => data = data0

(* C9: every branch attaches between the trunk top (y = 390) and the       *)
(* trunk midpoint (y = 470), and no two branches share an attachment       *)
(* point.                                                                  *)
C9_AttachOnTrunk ==
  /\ \A k \in Idx("branch") :
       /\ elements[k].y = 430 - 15 * elements[k].branch
       /\ elements[k].y >= trunk_end_y
       /\ elements[k].y <= 550 - (160 \div 2)
  /\ \A k, m \in Idx("branch") : k # m => elements[k].y # elements[m].y

(* C10: the trunk stroke width is 25 + 2 * years_active, whatever the bend *)
(* and the repositories: non-decreasing in years_active and strictly       *)
(* greater for 5 years than for 1.                                         *)
C10_TrunkWidth ==
  \A k \in Idx("trunk") :
    /\ elements[k].w = 25 + 2 * data0.years_active
    /\ elements[k].w >= 25 + 2 * 1
    /\ data0.years_active = 5 => elements[k].w > 25 + 2 * 1

C10_Witness ==
  /\ pc = "done" /\ data0.years_active = 5 /\ trunk_end_x # 400
  /\ data0.repos # << >>
  /\ \E k \in Idx("trunk") : elements[k].w = 35

====
